---- MODULE Spec2Model ----
(***************************************************************************)
(* Call forwarding with voicemail (main.go).                               *)
(*                                                                         *)
(* An HTTP server with two handlers: handleCallRequest (POST /) decides,   *)
(* from the wall clock and the configured business-hours window, whether   *)
(* an incoming call is forwarded (Dial) or sent to voicemail (Record);     *)
(* sendVoiceRecording (POST /sms) relays a transcript by SMS.              *)
(*                                                                         *)
(* Time is counted in minutes from a Sunday 00:00.  A string is a sequence *)
(* of tokens: one token per character for the hour values ("18" is         *)
(* <<"1","8">>), one token per word for the weekday phrases ("last Monday" *)
(* is <<"last","Monday">>).                                                *)
(***************************************************************************)
EXTENDS Integers, Sequences, FiniteSets, TLC

VARIABLES env, clock, server, req

vars == <<env, clock, server, req>>

\* ------------------------------------------------------------------ bounds

\* Number of requests the server handles, each on its own goroutine.
MaxRequests == 2

Requests == 1..MaxRequests

\* ------------------------------------------------------------------ time

\* time.Hour, in the model's unit (the minute).
Hour == 60

Day == 24 * Hour

\* time.Time.Weekday: Sunday = 0 ... Saturday = 6.
Weekday(t) == (t \div Day) % 7

TimeOfDay(t) == t % Day

\* The instant of weekday d at h:m in the modelled week.
At(d, h, m) == d * Day + h * Hour + m

\* time.Time.Before / After: strict comparisons of instants.
Before(t, u) == t < u

After(t, u) == t > u

\* workWeekStart.Add(time.Hour * time.Duration(dayStart))
AddHours(t, h) == t + h * Hour

\* ------------------------------------------------------------------ strconv

Digits == {"0", "1", "2", "3", "4", "5", "6", "7", "8", "9"}

DigitVal(c) ==
    CASE c = "0" -> 0 [] c = "1" -> 1 [] c = "2" -> 2 [] c = "3" -> 3
      [] c = "4" -> 4 [] c = "5" -> 5 [] c = "6" -> 6 [] c = "7" -> 7
      [] c = "8" -> 8 [] c = "9" -> 9

DigitChar(n) ==
    CASE n = 0 -> "0" [] n = 1 -> "1" [] n = 2 -> "2" [] n = 3 -> "3"
      [] n = 4 -> "4" [] n = 5 -> "5" [] n = 6 -> "6" [] n = 7 -> "7"
      [] n = 8 -> "8" [] n = 9 -> "9"

IsDigits(s) == Len(s) > 0 /\ \A i \in 1..Len(s) : s[i] \in Digits

RECURSIVE DecVal(_)
DecVal(s) ==
    IF s = <<>> THEN 0
    ELSE DecVal(SubSeq(s, 1, Len(s) - 1)) * 10 + DigitVal(s[Len(s)])

\* strconv.Atoi: the value and whether it failed; a string that is not a
\* decimal number yields 0 and an error.
Atoi(s) ==
    IF IsDigits(s) THEN [val |-> DecVal(s), err |-> FALSE]
    ELSE [val |-> 0, err |-> TRUE]

\* strconv.Itoa for n >= 0.
RECURSIVE Itoa(_)
Itoa(n) ==
    IF n < 10 THEN <<DigitChar(n)>>
    ELSE Itoa(n \div 10) \o <<DigitChar(n % 10)>>

\* ------------------------------------------------------------------ naturaldate

WeekdayNames ==
    {"Sunday", "Monday", "Tuesday", "Wednesday", "Thursday", "Friday", "Saturday"}

WeekdayNumber(w) ==
    CASE w = "Sunday" -> 0 [] w = "Monday" -> 1 [] w = "Tuesday" -> 2
      [] w = "Wednesday" -> 3 [] w = "Thursday" -> 4 [] w = "Friday" -> 5
      [] w = "Saturday" -> 6

\* Midnight of the day of t.
truncateDay(t) == t - (t % Day)

\* The most recent day before the day of t that is weekday d.
prevWeekday(t, d) ==
    LET back == Weekday(t) - d
    IN  t - Day * (IF back <= 0 THEN back + 7 ELSE back)

\* The next day after the day of t that is weekday d.
nextWeekday(t, d) ==
    LET ahead == d - Weekday(t)
    IN  t + Day * (IF ahead <= 0 THEN ahead + 7 ELSE ahead)

\* naturaldate.Parse(s, ref): "last <weekday>" and "next <weekday>" resolve
\* to that day at midnight, a bare hour 0..23 to that hour of the day of
\* ref; anything else cannot be resolved and is an error.
Parse(s, ref) ==
    IF Len(s) = 2 /\ s[1] = "last" /\ s[2] \in WeekdayNames
    THEN [t |-> truncateDay(prevWeekday(ref, WeekdayNumber(s[2]))), err |-> FALSE]
    ELSE IF Len(s) = 2 /\ s[1] = "next" /\ s[2] \in WeekdayNames
    THEN [t |-> truncateDay(nextWeekday(ref, WeekdayNumber(s[2]))), err |-> FALSE]
    ELSE IF IsDigits(s) /\ DecVal(s) \in 0..23
    THEN [t |-> truncateDay(ref) + DecVal(s) * Hour, err |-> FALSE]
    ELSE [t |-> 0, err |-> TRUE]

\* ------------------------------------------------------------------ isDuringBusinessHours

\* The four reference points of an evaluation, each a Parse result and its
\* error.  (workWeekStart_next resolves "next" where the code says "last".)
workWeekStart_next(now, weekStart, dayStart) ==
    LET p == Parse(<<"next">> \o weekStart, now)
    IN  [t |-> AddHours(p.t, dayStart), err |-> p.err]

workWeekStart(now, weekStart, dayStart) ==
    LET p == Parse(<<"last">> \o weekStart, now)
    IN  [t |-> AddHours(p.t, dayStart), err |-> p.err]

workWeekEnd(now, weekEnd, dayEnd) ==
    LET p == Parse(<<"next">> \o weekEnd, now)
    IN  [t |-> AddHours(p.t, dayEnd), err |-> p.err]

workDayStart(now, dayStart) == Parse(Itoa(dayStart), now)

workDayEnd(now, dayEnd) == Parse(Itoa(dayEnd), now)

\* The returned expression.
Comparison(now, wws, wwe, wds, wde) ==
    Before(now, wws) \/ After(now, wwe) \/ Before(now, wds) \/ After(now, wde)

\* isDuringBusinessHours with the instant it read from the clock: the value
\* and the error it returns.
isDuringBusinessHours(now, weekStart, weekEnd, dayStart, dayEnd) ==
    LET wws == workWeekStart(now, weekStart, dayStart)
        wwe == workWeekEnd(now, weekEnd, dayEnd)
        wds == workDayStart(now, dayStart)
        wde == workDayEnd(now, dayEnd)
    IN  IF wws.err \/ wwe.err \/ wds.err \/ wde.err
        THEN [val |-> FALSE, err |-> TRUE]
        ELSE [val |-> Comparison(now, wws.t, wwe.t, wds.t, wde.t), err |-> FALSE]

\* ------------------------------------------------------------------ environment

Unset == [set |-> FALSE, val |-> <<>>]

Value(v) == [set |-> TRUE, val |-> v]

\* getEnv(key, fallback)
getEnv(key, fallback) == IF env[key].set THEN env[key].val ELSE fallback

\* The locals of handleCallRequest read from the environment.
Config ==
    [ workWeekStart |-> getEnv("WORK_WEEK_START", <<"Monday">>),
      workWeekEnd   |-> getEnv("WORK_WEEK_END", <<"Friday">>),
      workDayStart  |-> Atoi(getEnv("WORK_DAY_START", <<"8">>)).val,
      workDayEnd    |-> Atoi(getEnv("WORK_DAY_END", <<"1", "8">>)).val ]

MakeEnv(ws, we, ds, de) ==
    [ WORK_WEEK_START |-> ws, WORK_WEEK_END |-> we,
      WORK_DAY_START |-> ds, WORK_DAY_END |-> de ]

\* ------------------------------------------------------------------ responses

\* http.StatusOK, the status of a response written without WriteHeader.
StatusOK == 200

\* http.StatusBadRequest
StatusBadRequest == 400

\* A http.ResponseWriter nothing was written to: no status yet, no body.
NoResponse == [status |-> 0, body |-> <<>>, aborted |-> FALSE]

\* w.Write(data): the status becomes 200 unless a header was written before.
Write(w, data) ==
    [w EXCEPT !.status = IF @ = 0 THEN StatusOK ELSE @, !.body = @ \o data]

\* appError: http.Error with status 400 and the JSON error body.
appError(w, detail) ==
    [w EXCEPT !.status = IF @ = 0 THEN StatusBadRequest ELSE @,
              !.body = Append(@, [kind |-> "error", text |-> detail])]

\* twiml.Voice(elements): the document, or an empty string and an error.
Voice(verbs, fails) ==
    IF fails THEN [doc |-> <<>>, err |-> TRUE]
    ELSE [doc |-> <<[kind |-> "twiml", text |-> verbs]>>, err |-> FALSE]

RecordVerbs == "Record transcribeCallback=/sms"

DialVerbs == "Dial MY_PHONE_NUMBER, Say"

\* if err != nil after isDuringBusinessHours.  (EvalFailed_never drops the
\* check.)
EvalFailed_never(during) == FALSE

EvalFailed(during) == during.err

\* The response handleCallRequest writes, from what isDuringBusinessHours
\* returned and whether twiml.Voice fails.
CallResponse(during, voiceFails) ==
    IF EvalFailed(during)
    THEN appError(NoResponse,
             "could not determine if current time is within business hours")
    ELSE IF ~during.val
    THEN LET tw == Voice(RecordVerbs, voiceFails)
             w1 == IF ~tw.err
                   THEN appError(NoResponse, "could not record voice call")
                   ELSE NoResponse
         IN  Write(w1, tw.doc)
    ELSE LET tw == Voice(DialVerbs, voiceFails)
             w1 == IF ~tw.err
                   THEN appError(NoResponse, "could not redirect call")
                   ELSE NoResponse
         IN  Write(w1, tw.doc)

\* What client.Api.CreateMessage returns: an error and no response object, or
\* a response whose Status pointer is nil or points to a status.
NilResp == [isNil |-> TRUE, statusNil |-> TRUE, status |-> ""]

Resp(status) == [isNil |-> FALSE, statusNil |-> FALSE, status |-> status]

RespNoStatus == [isNil |-> FALSE, statusNil |-> TRUE, status |-> ""]

CreateMessageResults ==
    { [err |-> TRUE, resp |-> NilResp], [err |-> FALSE, resp |-> RespNoStatus] }
    \cup { [err |-> FALSE, resp |-> Resp(s)] :
             s \in {"queued", "cancelled", "failed", "undelivered"} }

SentMessage == "The SMS with the voice recording transcript was sent successfully."

FailedMessage ==
    "Something went wrong sending the SMS with the voice recording transcript."

\* The response sendVoiceRecording writes: *resp.Status panics on a nil
\* resp or a nil Status, and the server drops the response of a handler
\* that panicked.
SmsResponse(created) ==
    IF created.resp.isNil \/ created.resp.statusNil
    THEN [NoResponse EXCEPT !.aborted = TRUE]
    ELSE IF created.resp.status \in {"cancelled", "failed", "undelivered"}
    THEN Write(NoResponse, <<[kind |-> "text", text |-> FailedMessage]>>)
    ELSE Write(NoResponse, <<[kind |-> "text", text |-> SentMessage]>>)

\* ------------------------------------------------------------------ state

NoDuring == [val |-> FALSE, err |-> FALSE]

NoConfig ==
    [workWeekStart |-> <<>>, workWeekEnd |-> <<>>, workDayStart |-> 0, workDayEnd |-> 0]

NoCreated == [err |-> FALSE, resp |-> NilResp]

Idle ==
    [ pc |-> "idle", route |-> "", cfg |-> NoConfig, now |-> 0, during |-> NoDuring,
      voiceErr |-> FALSE, created |-> NoCreated, resp |-> NoResponse ]

\* The instants and environments of the server runs.
Instants == { At(3, 7, 59), At(3, 12, 0), At(3, 18, 1), At(6, 12, 0) }

Envs ==
    { MakeEnv(Unset, Unset, Unset, Unset),
      MakeEnv(Value(<<"Funday">>), Unset, Unset, Unset),
      MakeEnv(Unset, Unset, Value(<<"a", "b", "c">>), Unset) }

\* The instants and environments of the evaluation runs.
EvalInstants ==
    { At(d, h, m) : d \in 0..6, h \in {0, 7, 8, 12, 17, 18, 23}, m \in {0, 1, 59} }

EvalEnvs ==
    { MakeEnv(ws, we, ds, de) :
        ws \in {Unset, Value(<<"Friday">>), Value(<<"Sunday">>), Value(<<"Funday">>)},
        we \in {Unset, Value(<<"Monday">>), Value(<<"Saturday">>), Value(<<"Funday">>)},
        ds \in {Unset, Value(<<"0">>), Value(<<"0", "8">>), Value(<<"1", "8">>),
                Value(<<"a", "b", "c">>)},
        de \in {Unset, Value(<<"8">>), Value(<<"2", "3">>), Value(<<"a", "b", "c">>)} }

Init ==
    /\ env \in Envs
    /\ clock \in Instants
    /\ server = "starting"
    /\ req = [r \in Requests |-> Idle]

InitEval ==
    /\ env \in EvalEnvs
    /\ clock \in EvalInstants
    /\ server = "serving"
    /\ req = [r \in Requests |-> Idle]

\* ------------------------------------------------------------------ main

\* godotenv.Load fails: log.Fatal.
LoadFails ==
    /\ server = "starting"
    /\ server' = "fatal"
    /\ UNCHANGED <<env, clock, req>>

\* godotenv.Load succeeded, the handlers are registered, ListenAndServe serves.
ListenAndServe ==
    /\ server = "starting"
    /\ server' = "serving"
    /\ UNCHANGED <<env, clock, req>>

\* ListenAndServe returns its error: log.Fatal.
ServeFails ==
    /\ server = "serving"
    /\ server' = "fatal"
    /\ UNCHANGED <<env, clock, req>>

\* The wall clock advances.
Tick ==
    /\ server = "serving"
    /\ \E t \in Instants : t > clock /\ clock' = t
    /\ UNCHANGED <<env, server, req>>

\* ------------------------------------------------------------------ handlers

\* The instant an evaluation compares with the reference points: the local
\* now, read once.  (EvalNow_reread reads the clock again.)
EvalNow_reread(r) == clock

EvalNow(r) == req[r].now

\* POST /: handleCallRequest reads the configuration and enters
\* isDuringBusinessHours, which reads time.Now().
CallBegin(r) ==
    /\ server = "serving"
    /\ req[r].pc = "idle"
    /\ req' = [req EXCEPT ![r] = [@ EXCEPT !.pc = "eval", !.route = "call",
                                           !.cfg = Config, !.now = clock]]
    /\ UNCHANGED <<env, clock, server>>

\* The rest of isDuringBusinessHours and of handleCallRequest.
CallFinish(r) ==
    /\ server = "serving"
    /\ req[r].pc = "eval"
    /\ LET c == req[r].cfg
           during == isDuringBusinessHours(EvalNow(r), c.workWeekStart, c.workWeekEnd,
                                           c.workDayStart, c.workDayEnd)
       IN  \E voiceFails \in (IF during.err THEN {FALSE} ELSE BOOLEAN) :
              req' = [req EXCEPT ![r] = [@ EXCEPT !.pc = "done", !.during = during,
                                         !.voiceErr = voiceFails,
                                         !.resp = CallResponse(during, voiceFails)]]
    /\ UNCHANGED <<env, clock, server>>

\* POST /sms: sendVoiceRecording.
SendVoiceRecording(r) ==
    /\ server = "serving"
    /\ req[r].pc = "idle"
    /\ \E created \in CreateMessageResults :
          req' = [req EXCEPT ![r] = [@ EXCEPT !.pc = "done", !.route = "sms",
                                     !.created = created,
                                     !.resp = SmsResponse(created)]]
    /\ UNCHANGED <<env, clock, server>>

Next ==
    \/ LoadFails
    \/ ListenAndServe
    \/ ServeFails
    \/ Tick
    \/ \E r \in Requests : CallBegin(r)
    \/ \E r \in Requests : CallFinish(r)
    \/ \E r \in Requests : SendVoiceRecording(r)

Spec == Init /\ [][Next]_vars

\* One request at a time, over the wide inputs.
First == {r \in Requests : r <= 1}

NextEval ==
    \/ \E r \in First : CallBegin(r)
    \/ \E r \in First : CallFinish(r)

SpecEval == InitEval /\ [][NextEval]_vars

\* ------------------------------------------------------------------ properties

DoneCalls == {r \in Requests : req[r].pc = "done" /\ req[r].route = "call"}

DoneSms == {r \in Requests : req[r].pc = "done" /\ req[r].route = "sms"}

\* The call requests whose evaluation succeeded.
Evaluated == {r \in DoneCalls : ~req[r].during.err}

DefaultConfig ==
    [ workWeekStart |-> <<"Monday">>, workWeekEnd |-> <<"Friday">>,
      workDayStart |-> 8, workDayEnd |-> 18 ]

\* The reference points of a finished evaluation.
WeekStartOf(r) ==
    workWeekStart(req[r].now, req[r].cfg.workWeekStart, req[r].cfg.workDayStart).t

WeekEndOf(r) ==
    workWeekEnd(req[r].now, req[r].cfg.workWeekEnd, req[r].cfg.workDayEnd).t

DayStartOf(r) == workDayStart(req[r].now, req[r].cfg.workDayStart).t

DayEndOf(r) == workDayEnd(req[r].now, req[r].cfg.workDayEnd).t

\* Within business hours: at or after weekStart and dayStart, at or before
\* weekEnd and dayEnd.
Within(r) ==
    /\ WeekStartOf(r) <= req[r].now /\ req[r].now <= WeekEndOf(r)
    /\ DayStartOf(r) <= req[r].now /\ req[r].now <= DayEndOf(r)

\* The weekday d lies in the days from weekday s to weekday e.
InDayRange(d, s, e) == IF s <= e THEN s <= d /\ d <= e ELSE d >= s \/ d <= e

OnWorkDay(r) ==
    InDayRange(Weekday(req[r].now), WeekdayNumber(req[r].cfg.workWeekStart[1]),
               WeekdayNumber(req[r].cfg.workWeekEnd[1]))

\* The time of day lies strictly before startHour:00 or after endHour:00.
OffHours(r) ==
    \/ TimeOfDay(req[r].now) < req[r].cfg.workDayStart * Hour
    \/ TimeOfDay(req[r].now) > req[r].cfg.workDayEnd * Hour

HasChunk(w, kind, text) ==
    \E i \in 1..Len(w.body) : w.body[i] = [kind |-> kind, text |-> text]

HasError(w) == \E i \in 1..Len(w.body) : w.body[i].kind = "error"

Forwarded(r) == HasChunk(req[r].resp, "twiml", DialVerbs)

Voicemailed(r) == HasChunk(req[r].resp, "twiml", RecordVerbs)

\* The error response alone: status 400, the JSON error body, no markup.
EvalErrorOnly(r) ==
    req[r].resp =
        appError(NoResponse,
                 "could not determine if current time is within business hours")

\* C1: whenever the evaluation succeeds (and the markup is generated), the
\* call is forwarded exactly when the instant is within business hours and
\* sent to voicemail exactly when it is not.
C1_ForwardIffWithin ==
    \A r \in Evaluated :
        ~req[r].voiceErr =>
            /\ Forwarded(r) <=> Within(r)
            /\ Voicemailed(r) <=> ~Within(r)

\* C2: isDuringBusinessHours returns true exactly when now is within business
\* hours, boundaries included.
C2_ReturnsTrueIffWithin ==
    \A r \in Evaluated : req[r].during.val <=> Within(r)

\* C3: an instant on a weekday outside startDay..endDay is outside business
\* hours (isDuringBusinessHours does not return true), whatever its time of
\* day.
C3_OffDayIsOutside ==
    \A r \in Evaluated : ~OnWorkDay(r) => ~req[r].during.val

\* C4: an instant whose time of day is strictly before startHour:00 or
\* strictly after endHour:00 is outside business hours (isDuringBusinessHours
\* does not return true), on every day and for every window.
C4_OffHoursIsOutside ==
    \A r \in Evaluated : OffHours(r) => ~req[r].during.val

\* A weekday name that is no weekday, or an hour value that is no number.
MalformedDay(key, fallback) == getEnv(key, fallback)[1] \notin WeekdayNames

MalformedHour(key, fallback) == Atoi(getEnv(key, fallback)).err

Malformed ==
    \/ MalformedDay("WORK_WEEK_START", <<"Monday">>)
    \/ MalformedDay("WORK_WEEK_END", <<"Friday">>)
    \/ MalformedHour("WORK_DAY_START", <<"8">>)
    \/ MalformedHour("WORK_DAY_END", <<"1", "8">>)

\* C5: with a malformed weekday name or a non-numeric hour value the
\* evaluation fails, and the request is answered with the error response
\* alone.
C5_MalformedFails ==
    \A r \in DoneCalls : Malformed => req[r].during.err /\ EvalErrorOnly(r)

C7_Decision ==
    /\ \A r \in DoneCalls :
          req[r].during =
              isDuringBusinessHours(req[r].now, req[r].cfg.workWeekStart,
                                    req[r].cfg.workWeekEnd, req[r].cfg.workDayStart,
                                    req[r].cfg.workDayEnd)
    /\ \A r, q \in DoneCalls :
          req[r].now = req[q].now /\ req[r].cfg = req[q].cfg
              => req[r].during = req[q].during

\* Finishing an evaluation changes nothing but the request's own record,
\* whose now and window it leaves as read.
C7_NoSharedWrites ==
    \A r \in Requests :
        req[r].pc = "eval" /\ req'[r].pc = "done" =>
            /\ env' = env /\ clock' = clock
            /\ req'[r].now = req[r].now /\ req'[r].cfg = req[r].cfg
            /\ \A q \in Requests \ {r} : req'[q] = req[q]

\* C7: the decision is a function of (now, window) alone: every finished
\* evaluation, however it was interleaved with clock ticks and other
\* requests, holds the result of evaluating its own now and window alone;
\* two evaluations of the same now and window agree; and an evaluation reads
\* now once and writes no shared state.
C7_PureDecision == [](C7_Decision) /\ [][C7_NoSharedWrites]_vars

\* Two evaluations that overlapped: both finished, they read different
\* instants, and the clock moved on after the later read.
C7_Witness ==
    \E r, q \in DoneCalls :
        /\ req[r].now < req[q].now /\ req[q].now < clock
        /\ req[r].during.val /= req[q].during.val

\* C8: the error response is written only when an error occurred: when the
\* evaluation and twiml.Voice both succeed the response is the markup alone,
\* and when twiml.Voice fails the error response is written.
C8_ErrorOnlyOnError ==
    \A r \in Evaluated :
        /\ ~req[r].voiceErr =>
              /\ ~HasError(req[r].resp)
              /\ Len(req[r].resp.body) = 1
              /\ req[r].resp.status = StatusOK
        /\ req[r].voiceErr => HasError(req[r].resp)

\* The SMS was created without error and its status is no failure.
SmsSent(r) ==
    /\ ~req[r].created.err
    /\ ~req[r].created.resp.isNil
    /\ ~req[r].created.resp.statusNil
    /\ req[r].created.resp.status \notin {"cancelled", "failed", "undelivered"}

\* C9: sendVoiceRecording always answers with exactly one message: the
\* success message when the SMS was created without error and its status is
\* none of cancelled, failed, undelivered, and the failure message otherwise.
C9_AlwaysAnswers ==
    \A r \in DoneSms :
        /\ ~req[r].resp.aborted
        /\ Len(req[r].resp.body) = 1
        /\ HasChunk(req[r].resp, "text", IF SmsSent(r) THEN SentMessage ELSE FailedMessage)

====
